---- MODULE Spec2Model ----
(***************************************************************************)
(* Model of optimxtra's URL-addressed object store                         *)
(* (optimxtra/storage/datastore.py), of the steps                          *)
(* (optimxtra/steps/chdir.py, optimxtra/steps/init_sequences.py) and of    *)
(* the directory contexts and globs (optimxtra/utils/fs.py).               *)
(*                                                                         *)
(* Python strings are sequences of one-character strings, so that URL      *)
(* parsing, URL construction and path joining are computed character by    *)
(* character as the code computes them.  A filesystem path, once resolved  *)
(* by the operating system, is a sequence of components (each a string).   *)
(***************************************************************************)
EXTENDS Integers, Sequences, FiniteSets, TLC

VARIABLES
    cwd,          \* the process's current working directory (resolved path)
    dirs,         \* the directories that exist (set of resolved paths)
    files,        \* the regular files that exist: resolved path -> bytes
    writers,      \* the calls of DataStoreIO.write in progress
    uuid,         \* number of tokens next_uuid() has issued
    handles,      \* history: the handles returned by write, in order
    lastOp,       \* history: the operation that completed last, and its outcome
    url_unparsed, \* resolver check: the argument of get_filepath
    resolved,     \* resolver check: the outcome of get_filepath
    unpickled,    \* the handle object last restored from a pickled state
    ctxs,         \* the directory contexts entered and not yet left, innermost last
    run,          \* the Run object the steps work on
    allocated,    \* number of Sequence objects constructed so far
    globbed       \* the last call of globs: its arguments and its outcome

vars == <<cwd, dirs, files, writers, uuid, handles, lastOp, url_unparsed, resolved,
          unpickled, ctxs, run, allocated, globbed>>

storeVars == <<cwd, dirs, files, writers, uuid, handles, lastOp>>

resolverVars == <<url_unparsed, resolved>>

objectVars == <<unpickled, ctxs, run, allocated, globbed>>

\* What the store's operations never touch.
sideVars == <<resolverVars, objectVars>>

(***************************************************************************)
(* Bounds                                                                  *)
(***************************************************************************)
\* Longest tail (the part after the scheme and its separator) of a URL
\* handed to get_filepath in the resolver check.
MaxTail == 3

\* Number of write calls started in one behaviour (caps the token counter).
MaxWrites == 2

\* Deepest nesting of directory contexts.
MaxDepth == 2

\* step_init_sequences is called while fewer Sequence objects than this exist.
MaxSequences == 5

(***************************************************************************)
(* Python string helpers                                                   *)
(***************************************************************************)
Min(a, b) == IF a <= b THEN a ELSE b

\* F applied to the value of e, with e evaluated once.
Let(e, F(_)) == CHOOSE r \in { F(x) : x \in {e} } : TRUE

\* s.startswith(p)
StartsWith(s, p) == Len(s) >= Len(p) /\ SubSeq(s, 1, Len(p)) = p

\* c in s
Contains(s, c) == \E i \in 1..Len(s) : s[i] = c

\* s.find(c, start), 1-based; Len(s) + 1 stands for Python's -1 (not found)
Find(s, c, start) ==
    IF \E i \in start..Len(s) : s[i] = c
    THEN CHOOSE i \in start..Len(s) : s[i] = c /\ \A j \in start..(i - 1) : s[j] # c
    ELSE Len(s) + 1

\* s[i:] for a 1-based i
From(s, i) == SubSeq(s, i, Len(s))

\* s[:i] exclusive of the 1-based i
Upto(s, i) == SubSeq(s, 1, i - 1)

\* os.sep on the POSIX hosts the store runs on
sep == <<"/">>

(***************************************************************************)
(* urllib.parse.urlparse, as far as get_filepath uses it                   *)
(***************************************************************************)
\* Characters urlsplit strips from the left of the URL (C0 controls, space).
ControlOrSpace == {" ", "\t", "\n", "\r"}

\* Characters urlsplit removes wherever they stand.
UnsafeBytes == {"\t", "\n", "\r"}

Letters == {"a", "b", "e", "f", "h", "i", "l", "m", "n", "o", "p", "r", "s",
            "t", "u", "x", "F"}

Digits == {"0", "1", "2", "3", "4", "5", "6", "7", "8", "9"}

SchemeChars == Letters \cup Digits \cup {"+", "-", "."}

\* str.lower() on one character
LowerChar(c) == IF c = "F" THEN "f" ELSE c

Lower(s) == [i \in 1..Len(s) |-> LowerChar(s[i])]

RECURSIVE Lstrip(_)
Lstrip(s) == IF s # <<>> /\ Head(s) \in ControlOrSpace THEN Lstrip(Tail(s)) ELSE s

RemoveUnsafe(s) == SelectSeq(s, LAMBDA c : c \notin UnsafeBytes)

\* The parse result: scheme, netloc and path; err is "ValueError" when
\* urlsplit rejects an unbalanced bracket in the netloc.
urlparse(u) ==
    Let(RemoveUnsafe(Lstrip(u)), LAMBDA url0 :
    Let(Find(url0, ":", 1), LAMBDA i :
    Let(/\ i <= Len(url0)
        /\ i > 1
        /\ url0[1] \in Letters
        /\ \A k \in 1..(i - 1) : url0[k] \in SchemeChars, LAMBDA hasScheme :
    Let(IF hasScheme THEN Lower(Upto(url0, i)) ELSE <<>>, LAMBDA scheme :
    Let(IF hasScheme THEN From(url0, i + 1) ELSE url0, LAMBDA url1 :
    Let(StartsWith(url1, <<"/", "/">>), LAMBDA hasNetloc :
    Let(Min(Find(url1, "/", 3), Min(Find(url1, "?", 3), Find(url1, "#", 3))), LAMBDA delim :
    Let(IF hasNetloc THEN SubSeq(url1, 3, delim - 1) ELSE <<>>, LAMBDA netloc :
    Let(IF hasNetloc THEN From(url1, delim) ELSE url1, LAMBDA url2 :
    Let(Upto(url2, Find(url2, "#", 1)), LAMBDA url3 :
    Let(Upto(url3, Find(url3, "?", 1)), LAMBDA path :
        IF Contains(netloc, "[") # Contains(netloc, "]")
        THEN [err |-> "ValueError", scheme |-> scheme, netloc |-> netloc, path |-> <<>>]
        ELSE [err |-> "", scheme |-> scheme, netloc |-> netloc, path |-> path]
    )))))))))))

(***************************************************************************)
(* DataStoreIO.get_filepath                                                *)
(***************************************************************************)
Raised(e) == [ok |-> FALSE, err |-> e, path |-> <<>>]

Returned(p) == [ok |-> TRUE, err |-> "", path |-> p]

FileScheme == <<"f", "i", "l", "e">>

TripleSlash == <<"f", "i", "l", "e", ":", "/", "/", "/">>

\* get_filepath without the check of the three slashes
get_filepath_unchecked(u) ==
    Let(urlparse(u), LAMBDA url :
        IF url.err # ""
        THEN Raised(url.err)
        ELSE IF url.scheme = FileScheme
             THEN Returned(From(url.path, 2))
             ELSE Raised("InvalidInput"))

get_filepath(u) ==
    Let(urlparse(u), LAMBDA url :
        IF url.err # ""
        THEN Raised(url.err)
        ELSE IF url.scheme = FileScheme
             THEN IF ~StartsWith(u, TripleSlash)
                  THEN Raised("InvalidInput")
                  ELSE Returned(From(url.path, 2))
             ELSE Raised("InvalidInput"))

(***************************************************************************)
(* Resolver check: get_filepath applied to a bounded set of URL strings    *)
(***************************************************************************)
UrlHeads == { <<"f", "i", "l", "e">>, <<"F", "i", "l", "e">>,
              <<" ", "f", "i", "l", "e">>, <<"h", "t", "t", "p">>,
              <<"1", "f", "i", "l", "e">>, <<>> }

UrlSeps == { <<":", "/", "/", "/">>, <<":", "/", "/">>, <<":", "/">>, <<":">>, <<>> }

TailChars == {"a", "b", "/", "?", "#", "[", "\t"}

RECURSIVE SeqsUpTo(_, _)
SeqsUpTo(S, n) ==
    IF n = 0 THEN { <<>> }
    ELSE LET shorter == SeqsUpTo(S, n - 1)
         IN  shorter \cup { Append(s, c) : s \in shorter, c \in S }

UrlInputs == { h \o s \o t : h \in UrlHeads, s \in UrlSeps, t \in SeqsUpTo(TailChars, MaxTail) }

Pending == [ok |-> FALSE, err |-> "pending", path |-> <<>>]


(***************************************************************************)
(* The operating system's view of a path string                            *)
(***************************************************************************)
\* The components of a path string: split on "/", empty components dropped.
RECURSIVE Components(_)
Components(s) ==
    IF s = <<>> THEN <<>>
    ELSE Let(Find(s, "/", 1), LAMBDA j :
         Let(IF j > Len(s) THEN <<>> ELSE From(s, j + 1), LAMBDA rest :
             IF j = 1 THEN Components(rest) ELSE <<Upto(s, j)>> \o Components(rest)))

\* A path string resolved by a system call made while the current directory
\* is c: absolute when it starts with "/", relative to c otherwise.
ResolvePath(c, s) ==
    Let(s, LAMBDA str :
        IF str # <<>> /\ Head(str) = "/" THEN Components(str) ELSE c \o Components(str))

\* Resolved path d is p or an ancestor of p.
Covers(d, p) == Len(d) <= Len(p) /\ SubSeq(p, 1, Len(d)) = d

Ancestors(p) == { SubSeq(p, 1, n) : n \in 0..Len(p) }

(***************************************************************************)
(* Configuration (optimxtra.opts.options) and identifiers                  *)
(* (optimxtra.storage.database.next_uuid)                                  *)
(***************************************************************************)
\* The absent value of an optional argument.
None == <<"None">>

\* options().get("datastore.url")
DatastoreUrl == <<"f", "i", "l", "e", ":", "/", "/", "/", "t", "m", "p", "/",
                  "s", "t", "o", "r", "e">>

\* options().get("datastore.relative_path_prefix")
DefaultPrefix == <<"r", "u", "n", "s">>

options_get(key) ==
    IF key = "datastore.url" THEN DatastoreUrl ELSE DefaultPrefix

default_if_null(value, key) == IF value = None THEN options_get(key) ELSE value

\* next_uuid().hex for the n-th token issued: a token that was never issued
\* before, standing for the 32 hexadecimal digits.
next_uuid_hex(n) == <<ToString(n)>>

(***************************************************************************)
(* Inputs                                                                  *)
(***************************************************************************)
\* A caller-supplied prefix; "#" is an ordinary character of a directory name.
HashPrefix == <<"r", "u", "n", "s", "#", "a">>

\* The prefixes write is called with (None: the configured default) ...
PrefixArgs == { None, HashPrefix }

\* ... and those delete is called with.
Prefixes == { DefaultPrefix, HashPrefix }

Payloads == { <<0>>, <<1, 0>> }

HomeDir == << <<"w">> >>

OtherDir == << <<"v">> >>

ChdirArgs == { None, <<"/", "w">>, <<"/", "v">> }

\* The concurrent callers of write.
Writers == {1, 2}

(***************************************************************************)
(* Filesystem calls                                                        *)
(***************************************************************************)
OsError(e) == [ok |-> FALSE, err |-> e, data |-> <<>>]

Bytes(b) == [ok |-> TRUE, err |-> "", data |-> b]

Done == [ok |-> TRUE, err |-> "", data |-> <<>>]

\* os.makedirs(s, exist_ok=exist_ok): the outcome, and the directories after
makedirs_err(s, exist_ok) ==
    LET p == ResolvePath(cwd, s)
    IN  IF \E a \in Ancestors(p) : a \in DOMAIN files THEN "FileExistsError"
        ELSE IF p \in dirs /\ ~exist_ok THEN "FileExistsError"
        ELSE ""

makedirs_dirs(s) == dirs \cup Ancestors(ResolvePath(cwd, s))

\* rmtree that reports a missing directory whatever ignore_errors says
rmtree_err_strict(s, ignore_errors) ==
    IF ResolvePath(cwd, s) \in dirs THEN "" ELSE "FileNotFoundError"

\* shutil.rmtree(s, ignore_errors=ignore_errors): the outcome
rmtree_err(s, ignore_errors) ==
    IF ResolvePath(cwd, s) \in dirs \/ ignore_errors THEN "" ELSE "FileNotFoundError"

\* ... and what it leaves of a set of directories and of the files
rmtree_dirs(s) ==
    LET d == ResolvePath(cwd, s)
    IN  IF d \in dirs THEN { x \in dirs : ~Covers(d, x) } ELSE dirs

rmtree_files(s) ==
    LET d == ResolvePath(cwd, s)
        kept == IF d \in dirs THEN { x \in DOMAIN files : ~Covers(d, x) } ELSE DOMAIN files
    IN  [x \in kept |-> files[x]]

\* open(s, "wb"): the error it raises, "" when it opens the file
open_wb_err(s) ==
    LET p == ResolvePath(cwd, s)
    IN  IF p \in dirs THEN "IsADirectoryError"
        ELSE IF p = <<>> \/ SubSeq(p, 1, Len(p) - 1) \notin dirs THEN "FileNotFoundError"
        ELSE ""

\* open(s, "rb") followed by f.read()
open_rb_read(s) ==
    LET p == ResolvePath(cwd, s)
    IN  IF p \in DOMAIN files THEN Bytes(files[p])
        ELSE IF p \in dirs THEN OsError("IsADirectoryError")
        ELSE OsError("FileNotFoundError")


(***************************************************************************)
(* DataStoreIO: path and URL computations                                  *)
(***************************************************************************)
\* The directory of a prefix, as delete and get_next_pathname_url compute it.
\* DataStoreIO.get_filepath(options().get("datastore.url")): the configuration
\* is read-only, so every operation obtains the same value.
datastore_root == get_filepath(options_get("datastore.url"))

pathdir_of(relative_path_prefix) ==
    LET root == datastore_root
    IN  IF root.ok THEN Returned(root.path \o sep \o relative_path_prefix) ELSE root

\* The pathname with one basename for every object
next_pathname_fixed(pathdir, basename) == pathdir \o sep \o <<"0">>

\* pathname = pathdir + os.sep + basename
next_pathname(pathdir, basename) == pathdir \o sep \o basename

\* The url without the identifier
next_url_prefix_only(relative_path_prefix, basename) ==
    TripleSlash \o relative_path_prefix

\* url = "file:///" + relative_path_prefix + os.sep + basename
next_url(relative_path_prefix, basename) ==
    TripleSlash \o relative_path_prefix \o sep \o basename

get_pathname_from_url(url) ==
    LET root == datastore_root
        rel == get_filepath(url)
    IN  IF ~root.ok THEN root
        ELSE IF ~rel.ok THEN rel
        ELSE Returned(root.path \o sep \o rel.path)

\* DataStoreIO(url).read() in the current state
read(url) ==
    LET pathname == get_pathname_from_url(url)
    IN  IF pathname.ok THEN open_rb_read(pathname.path) ELSE OsError(pathname.err)

(***************************************************************************)
(* Serialization codec (optimxtra.storage.serialization), validate_type    *)
(* (optimxtra.utils.exceptions) and the typed read                         *)
(***************************************************************************)
\* Python types, as read_deserialize's expected_type names them.
dict == <<"dict">>

list == <<"list">>

\* A Python object: its type and its items (for a mapping: key, value, ...).
Object(type, items) == [type |-> type, items |-> items]

\* The absence of an object.
NoValue == Object(None, <<>>)

\* The byte that tells the type of the encoded object.
TypeTag(type) == IF type = dict THEN 100 ELSE IF type = list THEN 108 ELSE 110

TagType(tag) == IF tag = 100 THEN dict ELSE IF tag = 108 THEN list ELSE None

\* serialization.serialize(obj): a self-describing encoding
serialize(obj) == <<TypeTag(obj.type)>> \o obj.items

\* serialization.deserialize(data)
deserialize(data) == Object(TagType(Head(data)), Tail(data))

\* validate_type(obj, expected_type) accepts obj
isinstance(obj, expected_type) == obj.type = expected_type

\* The outcome of an operation that yields an object.
Failed(e) == [ok |-> FALSE, err |-> e, obj |-> NoValue]

Loaded(obj) == [ok |-> TRUE, err |-> "", obj |-> obj]

\* DataStoreIO.__init__: the handle object, its only attribute the url
DataStoreIO(url) == [url |-> url]

\* handle.read(): the handle's url decides what is read
handle_read(self) == read(self.url)

\* read_deserialize without the validation of the type
read_deserialize_unvalidated(self, expected_type) ==
    LET data == handle_read(DataStoreIO(self.url))
    IN  IF ~data.ok THEN Failed(data.err) ELSE Loaded(deserialize(data.data))

\* handle.read_deserialize(expected_type) in the current state
read_deserialize(self, expected_type) ==
    LET data == handle_read(DataStoreIO(self.url))
        obj == deserialize(data.data)
    IN  IF ~data.ok THEN Failed(data.err)
        ELSE IF expected_type # None /\ ~isinstance(obj, expected_type)
             THEN Failed("TypeMismatch")
             ELSE Loaded(obj)

\* DataStore(obj): the mapping container around the items of a mapping
DataStore(obj) == Object(<<"DataStore">>, obj.items)

\* dict(self)
dict_of(self) == Object(dict, self.items)

\* from_url that returns the decoded object as it is
from_url_unwrapped(url) == read_deserialize(DataStoreIO(url), dict)

\* DataStore.from_url(url)
from_url(url) ==
    LET r == read_deserialize(DataStoreIO(url), dict)
    IN  IF r.ok THEN Loaded(DataStore(r.obj)) ELSE r

(***************************************************************************)
(* DataStoreIO.__getstate__ and __setstate__ (pickling of a handle)        *)
(***************************************************************************)
\* An object of the class is a function from the attributes set to their
\* values; this one has no attribute set yet (object.__new__).
NewObject == [key \in {} |-> <<>>]

\* The attributes to store and serialize.
__state__ == {"url"}

\* __getstate__ that stores no attribute
getstate_nothing(self) == [key \in {} |-> self[key]]

__getstate__(self) == [key \in __state__ |-> self[key]]

\* __setstate__: self after self.__setattr__(k, v) for each item of state
__setstate__(self, state) ==
    [key \in DOMAIN self \cup DOMAIN state |->
        IF key \in DOMAIN state THEN state[key] ELSE self[key]]

\* pickle.loads(pickle.dumps(self))
Restored(self) == __setstate__(NewObject, __getstate__(self))

(***************************************************************************)
(* State                                                                   *)
(***************************************************************************)
Idle == [pc |-> "idle", prefix |-> <<>>, data |-> <<>>, pathdir |-> <<>>,
         pathname |-> <<>>, url |-> <<>>, fd |-> <<>>, unlinked |-> FALSE]

NoOp == [op |-> "none", who |-> 0, arg |-> <<>>, out |-> Done]

\* Write calls started so far: every one has drawn, or is about to draw, a token.
Started == uuid + Cardinality({ w \in Writers : writers[w].pc = "uuid" })

\* No handle restored, no context entered, a run without fields, no call of
\* globs made.
InitObjects ==
    /\ unpickled = [from |-> 0, obj |-> <<>>]
    /\ ctxs = <<>>
    /\ run = [fields |-> [x \in {} |-> <<>>]]
    /\ allocated = 0
    /\ globbed = [src_dir |-> <<>>, include |-> <<>>, exclude |-> <<>>, addr |-> {},
                  out |-> [ok |-> FALSE, err |-> "pending", data |-> {}]]

Init ==
    /\ cwd = HomeDir
    /\ dirs = { <<>>, HomeDir, OtherDir }
    /\ files = [x \in {} |-> <<>>]
    /\ writers = [w \in Writers |-> Idle]
    /\ uuid = 0
    /\ handles = <<>>
    /\ lastOp = NoOp
    /\ url_unparsed = <<>>
    /\ resolved = Pending
    /\ InitObjects

(***************************************************************************)
(* DataStoreIO.write, one action per step that other callers can observe   *)
(***************************************************************************)
\* write is called; get_next_pathname_url resolves the prefix and the
\* directory and creates the directory.
WriteCall(w, arg, data) ==
    /\ writers[w].pc = "idle"
    /\ Started < MaxWrites
    /\ LET prefix == default_if_null(arg, "datastore.relative_path_prefix")
           pathdir == pathdir_of(prefix)
           err == IF pathdir.ok THEN makedirs_err(pathdir.path, TRUE) ELSE pathdir.err
       IN  IF err # ""
           THEN /\ lastOp' = [op |-> "write", who |-> 0, arg |-> <<>>, out |-> OsError(err)]
                /\ UNCHANGED <<dirs, writers>>
           ELSE /\ dirs' = makedirs_dirs(pathdir.path)
                /\ writers' = [writers EXCEPT ![w] =
                       [Idle EXCEPT !.pc = "uuid", !.prefix = prefix, !.data = data,
                                    !.pathdir = pathdir.path]]
                /\ UNCHANGED lastOp
    /\ UNCHANGED <<cwd, files, uuid, handles, sideVars>>

\* get_next_pathname_url draws the identifier and computes pathname and url.
NextUuid(w) ==
    /\ writers[w].pc = "uuid"
    /\ uuid' = uuid + 1
    /\ LET basename == next_uuid_hex(uuid')
       IN  writers' = [writers EXCEPT ![w] =
               [@ EXCEPT !.pc = "open",
                         !.pathname = next_pathname(writers[w].pathdir, basename),
                         !.url = next_url(writers[w].prefix, basename)]]
    /\ UNCHANGED <<cwd, dirs, files, handles, lastOp, sideVars>>

\* open(pathname, "wb"): creates the file, or truncates it; an error ends write.
OpenFile(w) ==
    /\ writers[w].pc = "open"
    /\ LET err == open_wb_err(writers[w].pathname)
           p == ResolvePath(cwd, writers[w].pathname)
       IN  IF err # ""
           THEN /\ writers' = [writers EXCEPT ![w] = Idle]
                /\ lastOp' = [op |-> "write", who |-> 0, arg |-> <<>>, out |-> OsError(err)]
                /\ UNCHANGED files
           ELSE /\ files' = [x \in DOMAIN files \cup {p} |-> IF x = p THEN <<>> ELSE files[x]]
                /\ writers' = [writers EXCEPT ![w] = [@ EXCEPT !.pc = "write", !.fd = p]]
                /\ UNCHANGED lastOp
    /\ UNCHANGED <<cwd, dirs, uuid, handles, sideVars>>

\* f.write(data) and the close that ends the with block: the bytes reach the
\* open file, which a delete may have unlinked in the meantime.
WriteBytes(w) ==
    /\ writers[w].pc = "write"
    /\ files' = IF writers[w].unlinked \/ writers[w].fd \notin DOMAIN files
                THEN files
                ELSE [files EXCEPT ![writers[w].fd] = writers[w].data]
    /\ writers' = [writers EXCEPT ![w] = [@ EXCEPT !.pc = "return"]]
    /\ UNCHANGED <<cwd, dirs, uuid, handles, lastOp, sideVars>>

\* return DataStoreIO(url)
WriteReturn(w) ==
    /\ writers[w].pc = "return"
    /\ handles' = Append(handles, [url |-> writers[w].url, data |-> writers[w].data,
                                   prefix |-> writers[w].prefix,
                                   pathname |-> writers[w].pathname,
                                   path |-> writers[w].fd,
                                   deleted |-> writers[w].unlinked])
    /\ lastOp' = [op |-> "write", who |-> Len(handles) + 1, arg |-> <<>>, out |-> Done]
    /\ writers' = [writers EXCEPT ![w] = Idle]
    /\ UNCHANGED <<cwd, dirs, files, uuid, sideVars>>

(***************************************************************************)
(* DataStoreIO.read, DataStoreIO.delete, step_chdir                        *)
(***************************************************************************)
\* handle.read() on a handle that some write has returned
Read(i) ==
    /\ i \in 1..Len(handles)
    /\ lastOp' = [op |-> "read", who |-> i, arg |-> <<>>, out |-> read(handles[i].url)]
    /\ UNCHANGED <<cwd, dirs, files, writers, uuid, handles, sideVars>>

\* DataStoreIO.delete(relative_path_prefix).  History: a writer whose open file
\* the delete unlinks, and a handle whose file it removes, are marked.
Delete(relative_path_prefix) ==
    LET pathdir == pathdir_of(relative_path_prefix)
        err == IF pathdir.ok THEN rmtree_err(pathdir.path, TRUE) ELSE pathdir.err
        d == ResolvePath(cwd, pathdir.path)
        gone(x) == pathdir.ok /\ d \in dirs /\ Covers(d, x)
    IN  /\ lastOp' = [op |-> "delete", who |-> 0, arg |-> relative_path_prefix,
                      out |-> IF err = "" THEN Done ELSE OsError(err)]
        /\ IF err = ""
           THEN /\ dirs' = rmtree_dirs(pathdir.path)
                /\ files' = rmtree_files(pathdir.path)
                /\ writers' = [w \in Writers |->
                       IF writers[w].pc \in {"write", "return"} /\ gone(writers[w].fd)
                       THEN [writers[w] EXCEPT !.unlinked = TRUE] ELSE writers[w]]
                /\ handles' = [i \in 1..Len(handles) |->
                       IF gone(handles[i].path)
                       THEN [handles[i] EXCEPT !.deleted = TRUE] ELSE handles[i]]
           ELSE UNCHANGED <<dirs, files, writers, handles>>
        /\ UNCHANGED <<cwd, uuid, sideVars>>

\* step_chdir(run, path)
Chdir(path) ==
    /\ IF path = None
       THEN /\ lastOp' = [op |-> "chdir", who |-> 0, arg |-> <<>>, out |-> Done]
            /\ UNCHANGED cwd
       ELSE LET p == ResolvePath(cwd, path)
            IN  IF p \in dirs
                THEN /\ cwd' = p
                     /\ lastOp' = [op |-> "chdir", who |-> 0, arg |-> <<>>, out |-> Done]
                ELSE /\ lastOp' = [op |-> "chdir", who |-> 0, arg |-> <<>>,
                                   out |-> OsError("FileNotFoundError")]
                     /\ UNCHANGED cwd
    /\ UNCHANGED <<dirs, files, writers, uuid, handles, sideVars>>

(***************************************************************************)
(* DataStore.to_url, DataStore.from_url, serialize_write, read_deserialize *)
(***************************************************************************)
\* The mapping snapshots stored: {} and {7: 1}
DataStores == { DataStore(Object(dict, <<>>)), DataStore(Object(dict, <<7, 1>>)) }

\* The sequences stored: [] and [1]
Lists == { Object(list, <<>>), Object(list, <<1>>) }

ExpectedTypes == { None, dict, list }

\* self.to_url(): serialize_write(dict(self)), whose steps are those of write;
\* the url of the handle it returns is the result.
ToUrl(w, self) == WriteCall(w, None, serialize(dict_of(self)))

\* DataStoreIO.serialize_write(obj, relative_path_prefix)
SerializeWrite(w, obj, relative_path_prefix) ==
    WriteCall(w, relative_path_prefix, serialize(obj))

\* handle.read_deserialize(expected_type) on a handle that write has returned
ReadDeserialize(i, expected_type) ==
    /\ i \in 1..Len(handles)
    /\ lastOp' = [op |-> "read_deserialize", who |-> i, arg |-> expected_type,
                  out |-> read_deserialize(DataStoreIO(handles[i].url), expected_type)]
    /\ UNCHANGED <<cwd, dirs, files, writers, uuid, handles, sideVars>>

\* DataStore.from_url(url) on a url that write has returned
FromUrl(i) ==
    /\ i \in 1..Len(handles)
    /\ lastOp' = [op |-> "from_url", who |-> i, arg |-> <<>>,
                  out |-> from_url(handles[i].url)]
    /\ UNCHANGED <<cwd, dirs, files, writers, uuid, handles, sideVars>>

(***************************************************************************)
(* A handle restored from its pickled state, and read                      *)
(***************************************************************************)
\* The handle that write returned as the i-th is pickled and restored.
Unpickle(i) ==
    /\ i \in 1..Len(handles)
    /\ unpickled' = [from |-> i, obj |-> Restored(DataStoreIO(handles[i].url))]
    /\ UNCHANGED <<storeVars, resolverVars, ctxs, run, allocated, globbed>>

\* restored.read()
ReadUnpickled ==
    /\ unpickled.from # 0
    /\ "url" \in DOMAIN unpickled.obj
    /\ lastOp' = [op |-> "read_unpickled", who |-> unpickled.from, arg |-> <<>>,
                  out |-> handle_read(unpickled.obj)]
    /\ UNCHANGED <<cwd, dirs, files, writers, uuid, handles, sideVars>>

(***************************************************************************)
(* chdir_ctx and tmpdir_ctx (optimxtra/utils/fs.py)                        *)
(***************************************************************************)
\* The path string of a resolved path, as os.getcwd() returns it.
RECURSIVE PathString(_)
PathString(p) ==
    IF p = <<>> THEN <<"/">>
    ELSE IF Len(p) = 1 THEN <<"/">> \o p[1]
    ELSE PathString(SubSeq(p, 1, Len(p) - 1)) \o <<"/">> \o p[Len(p)]

\* os.getcwd(): fails in a directory that has been removed
getcwd == IF cwd \in dirs THEN Returned(PathString(cwd)) ELSE Raised("FileNotFoundError")

\* The directory mkdtemp creates its directories in.
TempDir == << <<"t", "m", "p">> >>

\* mkdtemp(): the path string of a directory that did not exist
mkdtemp ==
    LET name(n) == <<"t", ToString(n)>>
        free == { n \in 1..MaxDepth : Append(TempDir, name(n)) \notin dirs }
    IN  PathString(Append(TempDir, name(CHOOSE n \in free : \A m \in free : n <= m)))

\* The dirname arguments of chdir_ctx: two directories that exist, a relative
\* name and a directory that does not exist.
CtxDirnames == { <<"/", "v">>, <<"/", "w">>, <<".", ".", "/", "v">>, <<"/", "x">> }

\* The finally clause that leaves the directory as the body left it
finally_chdir_skipped(old_dirname) == cwd

\* os.chdir(old_dirname) in the finally clause: the directory afterwards
finally_chdir(old_dirname) ==
    LET p == ResolvePath(cwd, old_dirname)
    IN  IF p \in dirs THEN p ELSE cwd

\* A context entered: the code's old_dirname and tmp_dirname, and (history)
\* the directory the process was in at entry.
Context(kind, old_dirname, tmp_dirname) ==
    [kind |-> kind, old_dirname |-> old_dirname, tmp_dirname |-> tmp_dirname,
     entry |-> cwd]

\* with chdir_ctx(dirname): up to the yield.  shutdown tells whether the
\* shutdown of the joblib workers raises.
EnterChdirCtx(dirname, shutdown_raises) ==
    /\ Len(ctxs) < MaxDepth
    /\ LET old_dirname == getcwd
           p == ResolvePath(cwd, dirname)
       IN  IF ~old_dirname.ok
           THEN /\ lastOp' = [op |-> "enter", who |-> 0, arg |-> dirname,
                              out |-> OsError("UnboundLocalError")]
                /\ UNCHANGED <<cwd, ctxs>>
           ELSE IF p \notin dirs
           THEN /\ lastOp' = [op |-> "enter", who |-> 0, arg |-> dirname,
                              out |-> OsError("FileNotFoundError")]
                /\ UNCHANGED <<cwd, ctxs>>
           ELSE IF shutdown_raises
           THEN /\ lastOp' = [op |-> "enter", who |-> 0, arg |-> dirname,
                              out |-> OsError("Exception")]
                /\ cwd' = ResolvePath(p, old_dirname.path)
                /\ UNCHANGED ctxs
           ELSE /\ lastOp' = [op |-> "enter", who |-> Len(ctxs) + 1, arg |-> dirname,
                              out |-> Done]
                /\ cwd' = p
                /\ ctxs' = Append(ctxs, Context("chdir_ctx", old_dirname.path, <<>>))
    /\ UNCHANGED <<dirs, files, writers, uuid, handles, resolverVars,
                   unpickled, run, allocated, globbed>>

\* with tmpdir_ctx(): up to the yield
EnterTmpdirCtx ==
    /\ Len(ctxs) < MaxDepth
    /\ LET old_dirname == getcwd
           tmp_dirname == mkdtemp
           p == ResolvePath(cwd, tmp_dirname)
       IN  IF ~old_dirname.ok
           THEN /\ lastOp' = [op |-> "enter", who |-> 0, arg |-> <<>>,
                              out |-> OsError("UnboundLocalError")]
                /\ UNCHANGED <<cwd, dirs, ctxs>>
           ELSE /\ lastOp' = [op |-> "enter", who |-> Len(ctxs) + 1, arg |-> <<>>,
                              out |-> Done]
                /\ dirs' = dirs \cup {p}
                /\ cwd' = p
                /\ ctxs' = Append(ctxs, Context("tmpdir_ctx", old_dirname.path, tmp_dirname))
    /\ UNCHANGED <<files, writers, uuid, handles, resolverVars,
                   unpickled, run, allocated, globbed>>

\* The innermost context exits, its body having completed or raised: the
\* finally clause of chdir_ctx or of tmpdir_ctx.
ExitCtx(body_raised) ==
    /\ ctxs # <<>>
    /\ LET c == ctxs[Len(ctxs)]
           restored == ResolvePath(cwd, c.old_dirname) \in dirs
           err == IF ~restored THEN "FileNotFoundError"
                  ELSE IF c.kind = "tmpdir_ctx" /\ rmtree_err(c.tmp_dirname, FALSE) # ""
                       THEN rmtree_err(c.tmp_dirname, FALSE)
                  ELSE IF body_raised THEN "Exception"
                  ELSE ""
       IN  /\ cwd' = finally_chdir(c.old_dirname)
           /\ IF c.kind = "tmpdir_ctx" /\ restored
              THEN /\ dirs' = rmtree_dirs(c.tmp_dirname)
                   /\ files' = rmtree_files(c.tmp_dirname)
              ELSE UNCHANGED <<dirs, files>>
           /\ lastOp' = [op |-> "exit", who |-> Len(ctxs), arg |-> <<>>,
                         out |-> IF err = "" THEN Done ELSE OsError(err)]
           /\ ctxs' = SubSeq(ctxs, 1, Len(ctxs) - 1)
    /\ UNCHANGED <<writers, uuid, handles, resolverVars, unpickled, run, allocated, globbed>>

(***************************************************************************)
(* step_init_sequences (optimxtra/steps/init_sequences.py)                 *)
(***************************************************************************)
\* The values of the names argument: None, a str, a list of str.
PyNone == [none |-> TRUE]

PyStr(s) == [str |-> s]

PyList(l) == [list |-> l]

\* isinstance(names, str)
is_str(names) == DOMAIN names = {"str"}

\* Sequence(): the n-th Sequence object constructed, empty
Sequence(n) == [class |-> "Sequence", id |-> n, items |-> <<>>]

\* The names the loop runs over when a str is not told from a list: the
\* characters of the str
names_iterated(names) ==
    IF names = PyNone THEN <<>>
    ELSE IF is_str(names) THEN [k \in 1..Len(names.str) |-> <<names.str[k]>>]
    ELSE names.list

\* The names the loop runs over: names after lines 12-15
names_normalized(names) ==
    IF names = PyNone THEN <<>>
    ELSE IF is_str(names) THEN <<names.str>>
    ELSE names.list

\* run.fields after the loop, each name given a Sequence of its own
fields_initialized(fields, names) ==
    LET l == names_normalized(names)
        last(n) == CHOOSE k \in 1..Len(l) : l[k] = n /\ \A j \in (k + 1)..Len(l) : l[j] # n
    IN  [n \in DOMAIN fields \cup { l[k] : k \in 1..Len(l) } |->
            IF \E k \in 1..Len(l) : l[k] = n THEN Sequence(allocated + last(n))
            ELSE fields[n]]

NamesArgs ==
    { PyNone, PyStr(<<"a", "b">>), PyStr(<<"c">>), PyStr(<<>>), PyList(<<>>),
      PyList(<< <<"a", "b">> >>), PyList(<< <<"c">>, <<"d">> >>),
      PyList(<< <<"a">>, <<"a">> >>) }

\* step_init_sequences(run, names), also when called as the step function
\* that init_sequences(names) returns
StepInitSequences(names) ==
    /\ allocated < MaxSequences
    /\ run' = [run EXCEPT !.fields = fields_initialized(run.fields, names)]
    /\ allocated' = allocated + Len(names_normalized(names))
    /\ lastOp' = [op |-> "step_init_sequences", who |-> 0, arg |-> names, out |-> Done]
    /\ UNCHANGED <<cwd, dirs, files, writers, uuid, handles, resolverVars,
                   unpickled, ctxs, globbed>>

(***************************************************************************)
(* globs (optimxtra/utils/fs.py)                                           *)
(***************************************************************************)
\* fnmatch.fnmatch(name, pattern) for patterns made of characters, "*", "?"
RECURSIVE fnmatch(_, _)
fnmatch(name, pattern) ==
    IF pattern = <<>> THEN name = <<>>
    ELSE IF Head(pattern) = "*"
         THEN fnmatch(name, Tail(pattern)) \/ (name # <<>> /\ fnmatch(Tail(name), pattern))
         ELSE /\ name # <<>>
              /\ Head(pattern) = "?" \/ Head(pattern) = Head(name)
              /\ fnmatch(Tail(name), Tail(pattern))

\* str(Path(src_dir).rglob(pattern)): rglob returns a generator, and the str
\* of a generator is its repr, which holds the address of the object.
str_of_rglob(addr) ==
    <<"<", "g", "e", "n", "e", "r", "a", "t", "o", "r", " ", "o", "b", "j", "e", "c", "t",
      " ", "P", "a", "t", "h", ".", "r", "g", "l", "o", "b", " ", "a", "t", " ", "0", "x">>
    \o addr \o <<">">>

\* list(s) for a str s: its characters, each a str
list_of_str(s) == [k \in 1..Len(s) |-> <<s[k]>>]

\* The addresses the generator object may be placed at (hexadecimal digits).
Addresses == { <<"7", "f", "0">>, <<"1", "d", "e">> }

\* include and exclude after lines 79-84: a list of patterns
patterns_list(arg) ==
    IF arg = PyNone THEN <<>> ELSE IF is_str(arg) THEN <<arg.str>> ELSE arg.list

os_path_isdir(s) == ResolvePath(cwd, s) \in dirs

os_path_isfile(s) == ResolvePath(cwd, s) \in DOMAIN files

\* The outcome of globs: the error raised, or the set of the names returned.
GlobsRaised(e) == [ok |-> FALSE, err |-> e, data |-> {}]

GlobsReturned(matches) == [ok |-> TRUE, err |-> "", data |-> matches]

\* globs(src_dir, include, exclude), the generator objects placed at addr
globs(src_dir, include, exclude, addr) ==
    IF ~os_path_isdir(src_dir) THEN GlobsRaised("InvalidInput")
    ELSE LET inc == patterns_list(include)
             exc == patterns_list(exclude)
             found(pattern) == list_of_str(str_of_rglob(addr))
             candidates == UNION { { found(inc[k])[j] : j \in 1..Len(found(inc[k])) } :
                                   k \in 1..Len(inc) }
             dropped == { name \in candidates :
                            \/ ~os_path_isfile(src_dir \o sep \o name)
                            \/ \E k \in 1..Len(exc) : fnmatch(name, exc[k]) }
         IN  GlobsReturned(candidates \ dropped)

SrcDirs == { <<"/", "w">>, <<"/", "w", "/", "d">>, <<"/", "x">>, <<"/", "w", "/", "a">> }

Includes == { PyStr(<<"*", "*", "/", "*">>), PyStr(<<"a", "*">>), PyList(<<>>),
              PyList(<< <<"a", "b">>, <<"7">> >>) }

Excludes == { PyNone, PyStr(<<"a">>), PyList(<< <<"7", "*">> >>) }

Globs(src_dir, include, exclude, addr) ==
    /\ globbed' = [src_dir |-> src_dir, include |-> include, exclude |-> exclude,
                   addr |-> addr, out |-> globs(src_dir, include, exclude, addr)]
    /\ UNCHANGED <<storeVars, resolverVars, unpickled, ctxs, run, allocated>>

(***************************************************************************)
(* Specifications                                                          *)
(***************************************************************************)
\* The store used by concurrent writers, readers and deleters from one
\* working directory.
WriteReadNext(W) ==
    \/ \E w \in W, arg \in PrefixArgs, data \in Payloads : WriteCall(w, arg, data)
    \/ \E w \in W : NextUuid(w)
    \/ \E w \in W : OpenFile(w)
    \/ \E w \in W : WriteBytes(w)
    \/ \E w \in W : WriteReturn(w)
    \/ \E i \in 1..MaxWrites : Read(i)

Next ==
    \/ WriteReadNext(Writers)
    \/ \E p \in Prefixes : Delete(p)

Spec == Init /\ [][Next]_vars

\* The store used by one caller that also changes the working directory.
NextCwd ==
    \/ WriteReadNext({1})
    \/ \E p \in Prefixes : Delete(p)
    \/ \E path \in ChdirArgs : Chdir(path)

SpecCwd == Init /\ [][NextCwd]_vars

\* Writers and readers only: no delete, no change of directory.
NextWriters == WriteReadNext(Writers)

SpecWriters == Init /\ [][NextWriters]_vars

\* Mapping snapshots and sequences stored and loaded by one caller, with
\* deletes of whole prefixes in between.
NextSnapshot ==
    \/ \E self \in DataStores : ToUrl(1, self)
    \/ \E obj \in Lists, arg \in PrefixArgs : SerializeWrite(1, obj, arg)
    \/ NextUuid(1)
    \/ OpenFile(1)
    \/ WriteBytes(1)
    \/ WriteReturn(1)
    \/ \E i \in 1..MaxWrites, t \in ExpectedTypes : ReadDeserialize(i, t)
    \/ \E i \in 1..MaxWrites : FromUrl(i)
    \/ \E p \in Prefixes : Delete(p)

SpecSnapshot == Init /\ [][NextSnapshot]_vars

\* Handles written, deleted, pickled and restored, and read.
NextHandle ==
    \/ WriteReadNext({1})
    \/ \E p \in Prefixes : Delete(p)
    \/ \E i \in 1..MaxWrites : Unpickle(i)
    \/ ReadUnpickled

SpecHandle == Init /\ [][NextHandle]_vars

\* Directory contexts nested in one another, their bodies changing the
\* directory with step_chdir, completing or raising.
InitCtx ==
    /\ cwd = HomeDir
    /\ dirs = { <<>>, HomeDir, OtherDir, TempDir }
    /\ files = [x \in {} |-> <<>>]
    /\ writers = [w \in Writers |-> Idle]
    /\ uuid = 0
    /\ handles = <<>>
    /\ lastOp = NoOp
    /\ url_unparsed = <<>>
    /\ resolved = Pending
    /\ InitObjects

NextCtx ==
    \/ \E dirname \in CtxDirnames, shutdown_raises \in BOOLEAN :
          EnterChdirCtx(dirname, shutdown_raises)
    \/ EnterTmpdirCtx
    \/ \E body_raised \in BOOLEAN : ExitCtx(body_raised)
    \/ \E path \in ChdirArgs : Chdir(path)

SpecCtx == InitCtx /\ [][NextCtx]_vars

\* Runs with no field, or with fields that hold a filled and an empty
\* sequence, on which step_init_sequences is called again and again.
RunFields ==
    LET filled == [Sequence(1) EXCEPT !.items = <<5>>]
    IN  { [x \in {} |-> filled],
          [x \in { <<"a", "b">>, <<"c">> } |-> IF x = <<"c">> THEN filled ELSE Sequence(2)],
          [x \in { <<"a">>, <<"e">> } |-> IF x = <<"a">> THEN filled ELSE Sequence(2)] }

InitRun ==
    /\ cwd = HomeDir
    /\ dirs = { <<>>, HomeDir, OtherDir }
    /\ files = [x \in {} |-> <<>>]
    /\ writers = [w \in Writers |-> Idle]
    /\ uuid = 0
    /\ handles = <<>>
    /\ lastOp = NoOp
    /\ url_unparsed = <<>>
    /\ resolved = Pending
    /\ unpickled = [from |-> 0, obj |-> <<>>]
    /\ ctxs = <<>>
    /\ \E fields \in RunFields : run = [fields |-> fields]
    /\ allocated = 2
    /\ globbed = [src_dir |-> <<>>, include |-> <<>>, exclude |-> <<>>, addr |-> {},
                  out |-> [ok |-> FALSE, err |-> "pending", data |-> {}]]

NextRun == \E names \in NamesArgs : StepInitSequences(names)

SpecRun == InitRun /\ [][NextRun]_vars

\* globs called on directory trees that hold some of four files.
SubDir == << <<"w">>, <<"d">> >>

FilePaths == { << <<"w">>, <<"a">> >>, << <<"w">>, <<"a", "b">> >>,
               << <<"w">>, <<"7">> >>, << <<"w">>, <<"d">>, <<"a">> >> }

InitGlobs ==
    /\ cwd = HomeDir
    /\ dirs = { <<>>, HomeDir, OtherDir, SubDir }
    /\ \E present \in SUBSET FilePaths : files = [x \in present |-> <<0>>]
    /\ writers = [w \in Writers |-> Idle]
    /\ uuid = 0
    /\ handles = <<>>
    /\ lastOp = NoOp
    /\ url_unparsed = <<>>
    /\ resolved = Pending
    /\ InitObjects

NextGlobs ==
    \E src_dir \in SrcDirs, include \in Includes, exclude \in Excludes, addr \in Addresses :
        Globs(src_dir, include, exclude, addr)

SpecGlobs == InitGlobs /\ [][NextGlobs]_vars

\* get_filepath on each URL string of UrlInputs.
InitResolver ==
    /\ cwd = HomeDir
    /\ dirs = { <<>>, HomeDir, OtherDir }
    /\ files = [x \in {} |-> <<>>]
    /\ writers = [w \in Writers |-> Idle]
    /\ uuid = 0
    /\ handles = <<>>
    /\ lastOp = NoOp
    /\ url_unparsed \in UrlInputs
    /\ resolved = Pending
    /\ InitObjects

Resolve ==
    /\ resolved = Pending
    /\ resolved' = get_filepath(url_unparsed)
    /\ UNCHANGED <<storeVars, url_unparsed, objectVars>>

NextResolver == Resolve

SpecResolver == InitResolver /\ [][NextResolver]_vars


(***************************************************************************)
(* Properties                                                              *)
(***************************************************************************)
\* The pathname and url pairs get_next_pathname_url has produced so far: those
\* of the handles returned, then those of the writes still in progress.
Issued ==
    [i \in 1..Len(handles) |-> [url |-> handles[i].url, pathname |-> handles[i].pathname]]
    \o SelectSeq([w \in Writers |-> [url |-> writers[w].url, pathname |-> writers[w].pathname]],
                 LAMBDA r : r.url # <<>>)

\* C2. Uniqueness: the URLs, and the pathnames, that the write calls made so
\* far have been given are pairwise distinct, also for writes with the same
\* prefix and the same payload (next_uuid never repeats a token).
C2_Uniqueness ==
    \A i, j \in 1..Len(Issued) :
        i # j => Issued[i].url # Issued[j].url /\ Issued[i].pathname # Issued[j].pathname

\* Two writes with the same prefix and the same payload have returned.
C2_Witness ==
    /\ Len(handles) >= 2
    /\ handles[1].prefix = handles[2].prefix
    /\ handles[1].data = handles[2].data

\* The part of p that urlparse takes for the path: tab, CR and LF removed,
\* cut before the first "?" or "#".
PathPart(p) ==
    Let(SelectSeq(p, LAMBDA c : c \notin {"\t", "\n", "\r"}), LAMBDA q :
        SubSeq(q, 1, Min(Find(q, "?", 1), Find(q, "#", 1)) - 1))

\* The remainder p of a URL "file:///" + p
Remainder(u) == SubSeq(u, Len(TripleSlash) + 1, Len(u))

ReadNow(i) == read(handles[i].url)

NotFound == OsError("FileNotFoundError")

\* C1 as claimed. Read-after-write fidelity: a read of a handle whose file no
\* delete has removed since write opened it returns exactly the bytes written.
C1_ReadAfterWrite ==
    \A i \in 1..Len(handles) :
        (lastOp.op = "read" /\ lastOp.who = i /\ ~handles[i].deleted)
            => lastOp.out = Bytes(handles[i].data)

\* C4 as claimed. Deletion scope: when delete(p) has returned, every handle
\* written under p fails to read with a NotFound error, and every handle
\* written under another prefix, its file not deleted before, reads its bytes.
C4_DeletionScope ==
    lastOp.op = "delete" =>
        \A i \in 1..Len(handles) :
            IF handles[i].prefix = lastOp.arg
            THEN ReadNow(i) = NotFound
            ELSE ~handles[i].deleted => ReadNow(i) = Bytes(handles[i].data)

\* The directory of prefix p exists in the current directory's store.
DirExists(p) == ResolvePath(cwd, pathdir_of(p).path) \in dirs

\* C5. Idempotent delete: delete(p) never raises; on a prefix whose directory
\* does not exist it changes no directory, no file and no handle; and once
\* delete(p) has returned the directory is gone, so that a second delete(p)
\* would remove nothing more.
C5_IdempotentDelete ==
    [][\A p \in Prefixes : Delete(p) =>
          /\ lastOp'.out = Done
          /\ ~DirExists(p) => UNCHANGED <<dirs, files, handles, writers>>
          /\ ~DirExists(p)'
          /\ rmtree_dirs(pathdir_of(p).path)' = dirs'
          /\ rmtree_files(pathdir_of(p).path)' = files'
      ]_vars

\* delete has returned for a prefix that was never written, with every
\* object written under the other prefix still in place.
C5_Witness ==
    /\ lastOp = [op |-> "delete", who |-> 0, arg |-> HashPrefix, out |-> Done]
    /\ Len(handles) = MaxWrites
    /\ \A i \in 1..Len(handles) :
          /\ handles[i].prefix = DefaultPrefix
          /\ ~handles[i].deleted
          /\ ReadNow(i) = Bytes(handles[i].data)

\* C6 as claimed. No partial success: at the moment write returns a handle,
\* the handle's URL holds the full payload, whatever other operations ran
\* while the write was in progress.  Stated for the writes under the default
\* prefix, whose URL resolves to the file written.
C6_NoPartialSuccess ==
    (lastOp.op = "write" /\ lastOp.out.ok /\ handles[lastOp.who].prefix = DefaultPrefix)
        => ReadNow(lastOp.who) = Bytes(handles[lastOp.who].data)

\* C7 as claimed. No torn reads: a read of a returned URL yields the full
\* payload or a NotFound failure.
C7_NoTornReads ==
    lastOp.op = "read" =>
        \/ lastOp.out = Bytes(handles[lastOp.who].data)
        \/ lastOp.out = NotFound

\* C8 as claimed. Race-tolerant directory creation: with writers only, no
\* write fails, and every returned handle reads back its own payload.
C8_RaceTolerantMakedirs ==
    /\ lastOp.op = "write" => lastOp.out.ok
    /\ \A i \in 1..Len(handles) : ReadNow(i) = Bytes(handles[i].data)

\* C9 as claimed. The store root does not depend on the current directory:
\* a handle that read back its bytes before a change of directory reads them
\* back after it.
C9_AbsoluteRoot ==
    [][\A path \in ChdirArgs : Chdir(path) =>
          \A i \in 1..Len(handles) :
              ReadNow(i) = Bytes(handles[i].data) => ReadNow(i)' = Bytes(handles[i].data)
      ]_vars

\* C10. Write-once frame: a step never changes the bytes of a stored file,
\* except that a writer fills the empty file it has just created; only
\* delete removes a file; a step creates at most one file, the empty file of
\* the writer that opens it; read changes neither files nor directories;
\* and a returned URL never reads bytes other than those written to it.
C10_WriteOnceFrame ==
    [][/\ \A x \in DOMAIN files \cap DOMAIN files' :
             \/ files'[x] = files[x]
             \/ \E w \in Writers : /\ WriteBytes(w)
                                   /\ writers[w].fd = x
                                   /\ files[x] = <<>>
                                   /\ files'[x] = writers[w].data
       /\ DOMAIN files \ DOMAIN files' # {} => \E p \in Prefixes : Delete(p)
       /\ \A x \in DOMAIN files' \ DOMAIN files :
             /\ DOMAIN files' \ DOMAIN files = {x}
             /\ \E w \in Writers : OpenFile(w) /\ writers'[w].fd = x /\ files'[x] = <<>>
       /\ (\E w \in Writers : WriteReturn(w)) =>
             /\ files' = files
             /\ Len(handles') = Len(handles) + 1
       /\ (\E i \in 1..Len(handles) : Read(i)) => UNCHANGED <<files, dirs, handles>>
       /\ \A i \in 1..Len(handles') :
             ReadNow(i)'.ok => ReadNow(i)' = Bytes(handles'[i].data)
      ]_vars

\* Two objects with different payloads have been written one after the
\* other, and the first still reads back its own bytes.
C10_Witness ==
    /\ Len(handles) = 2
    /\ handles[1].data # handles[2].data
    /\ lastOp.op = "read" /\ lastOp.who = 1
    /\ lastOp.out = Bytes(handles[1].data)
    /\ ReadNow(2) = Bytes(handles[2].data)

\* The DataStore whose to_url call produced handle i, NoValue when handle i
\* was not written from a mapping under the default prefix.
SnapshotOf(i) ==
    IF handles[i].prefix = DefaultPrefix
       /\ \E m \in DataStores : handles[i].data = serialize(dict_of(m))
    THEN CHOOSE m \in DataStores : handles[i].data = serialize(dict_of(m))
    ELSE NoValue

\* C11. Type check on read: read_deserialize with an expected type fails with
\* the type-mismatch error and returns no value whenever the payload it read
\* decodes to an object of another type; from_url on a url whose payload was
\* written from a sequence fails and returns no DataStore (with the
\* type-mismatch error when the read itself succeeds); neither changes a
\* file, a directory or a handle.
C11_TypeCheck ==
    [][IF lastOp'.op = "read_deserialize"
       THEN \A i \in {lastOp'.who}, t \in {lastOp'.arg} \ {None} :
               (ReadDeserialize(i, t) /\ ReadNow(i).ok
                  /\ deserialize(ReadNow(i).data).type # t)
                 => /\ lastOp'.out = Failed("TypeMismatch")
                    /\ UNCHANGED <<files, dirs, handles>>
       ELSE IF lastOp'.op = "from_url"
       THEN \A i \in {lastOp'.who} :
               (FromUrl(i) /\ deserialize(handles[i].data).type # dict)
                 => /\ ~lastOp'.out.ok
                    /\ lastOp'.out.obj = NoValue
                    /\ ReadNow(i).ok => lastOp'.out.err = "TypeMismatch"
                    /\ UNCHANGED <<files, dirs, handles>>
       ELSE TRUE
      ]_vars

\* from_url has failed with the type mismatch on a stored sequence, which
\* still reads back the bytes written.
C11_Witness ==
    /\ lastOp.op = "from_url"
    /\ lastOp.out = Failed("TypeMismatch")
    /\ deserialize(handles[lastOp.who].data) = Object(list, <<1>>)
    /\ ReadNow(lastOp.who) = Bytes(handles[lastOp.who].data)

\* C12. Mapping snapshot round trip: the url that to_url returns for a
\* mapping m is "file:///" + the default prefix + "/" + an identifier issued
\* by next_uuid; from_url of it returns a DataStore equal to m as long as no
\* delete has removed the object; and when delete of the default prefix has
\* returned, reading the url fails with the NotFound error.
C12_SnapshotRoundTrip ==
    \A i \in 1..Len(handles) :
        SnapshotOf(i) # NoValue =>
            /\ \E n \in 1..uuid :
                  handles[i].url = TripleSlash \o DefaultPrefix \o <<"/">> \o next_uuid_hex(n)
            /\ (lastOp.op = "from_url" /\ lastOp.who = i /\ ~handles[i].deleted)
                  => lastOp.out = Loaded(SnapshotOf(i))
            /\ (lastOp.op = "delete" /\ lastOp.arg = DefaultPrefix)
                  => /\ ReadNow(i) = NotFound
                     /\ from_url(handles[i].url) = Failed("FileNotFoundError")

\* The mapping {7: 1} has been stored and loaded back, and so has the
\* empty mapping.
C12_Witness ==
    /\ Len(handles) = 2
    /\ SnapshotOf(1) = DataStore(Object(dict, <<7, 1>>))
    /\ SnapshotOf(2) = DataStore(Object(dict, <<>>))
    /\ lastOp.op = "from_url" /\ lastOp.who = 1
    /\ lastOp.out = Loaded(SnapshotOf(1))
    /\ from_url(handles[2].url) = Loaded(SnapshotOf(2))

\* C13 as claimed. URL/pathname agreement: for the prefix p of every write
\* (supplied or defaulted) there is an identifier such that the url is
\* "file:///" + p + "/" + identifier, the pathname is Root + "/" + p + "/" +
\* identifier, and get_pathname_from_url(url) is that pathname.
C13_UrlPathnameAgreement ==
    \A i \in 1..Len(handles) :
        \E n \in 1..uuid :
            LET p == handles[i].prefix
                identifier == next_uuid_hex(n)
            IN  /\ handles[i].url = TripleSlash \o p \o <<"/">> \o identifier
                /\ handles[i].pathname =
                       datastore_root.path \o <<"/">> \o p \o <<"/">> \o identifier
                /\ get_pathname_from_url(handles[i].url) = Returned(handles[i].pathname)

\* The restored handle is the handle DataStoreIO(url) of the original's url,
\* and reads what that handle reads.
RestoredIsOriginal ==
    unpickled.from # 0 =>
        /\ DOMAIN unpickled.obj = {"url"}
        /\ unpickled.obj.url = handles[unpickled.from].url
        /\ unpickled.obj = DataStoreIO(handles[unpickled.from].url)
        /\ handle_read(unpickled.obj) = ReadNow(unpickled.from)

\* C14. Handle identity is its URL: a handle restored from the pickled state
\* of a handle has the url of that handle and no other attribute; in every
\* later state of the store it would read what a handle made from the same
\* url reads; and when it is read, the result is that of the original handle.
C14_HandleIdentity ==
    /\ []RestoredIsOriginal
    /\ [][(lastOp'.op = "read_unpickled" /\ ReadUnpickled)
             => lastOp'.out = ReadNow(unpickled.from)]_vars

\* A handle restored from the pickled state of the first handle has read
\* back the bytes written through the original.
C14_Witness ==
    /\ unpickled.from = 1
    /\ unpickled.obj = DataStoreIO(handles[1].url)
    /\ lastOp.op = "read_unpickled"
    /\ lastOp.who = 1
    /\ lastOp.out = Bytes(handles[1].data)
    /\ ReadNow(1) = Bytes(handles[1].data)

\* C15. Directory contexts restore the working directory: whenever a
\* chdir_ctx or tmpdir_ctx context exits, its body completed or raised, at
\* any depth of nesting, the current directory after the exit is the one the
\* process was in when the context was entered; and after the exit of a
\* tmpdir_ctx the temporary directory it created exists no more.
C15_ContextsRestore ==
    [][\A body_raised \in BOOLEAN :
          ExitCtx(body_raised) =>
              LET c == ctxs[Len(ctxs)]
              IN  /\ cwd' = c.entry
                  /\ cwd' \in dirs'
                  /\ c.kind = "tmpdir_ctx" =>
                        /\ ResolvePath(cwd, c.tmp_dirname) \notin dirs'
                        /\ \A x \in DOMAIN files' : ~Covers(ResolvePath(cwd, c.tmp_dirname), x)
      ]_vars

\* A tmpdir_ctx nested in a chdir_ctx has exited, its body having raised: the
\* process is back in the directory of the chdir_ctx and the temporary
\* directory is gone.
C15_Witness ==
    /\ Len(ctxs) = 1
    /\ ctxs[1].kind = "chdir_ctx"
    /\ ctxs[1].entry = HomeDir
    /\ cwd = OtherDir
    /\ lastOp = [op |-> "exit", who |-> 2, arg |-> <<>>, out |-> OsError("Exception")]
    /\ \A d \in dirs : ~Covers(TempDir, d) \/ d = TempDir

\* The field names that a names argument stands for: none for None, the
\* string itself for a string, the elements for a list.
NamesMeant(names) ==
    IF names = PyNone THEN {}
    ELSE IF DOMAIN names = {"str"} THEN { names.str }
    ELSE { names.list[k] : k \in 1..Len(names.list) }

\* C16. step_init_sequences(run, names) leaves in run.fields, for every name
\* meant by names (a single string meaning that one name, not its
\* characters), a Sequence that is empty and newly constructed, one object
\* per name; it adds no other field and leaves every other field as it was;
\* and with names None it changes nothing of the run.
C16_InitSequences ==
    [][\A names \in NamesArgs :
          StepInitSequences(names) =>
              /\ DOMAIN run'.fields = DOMAIN run.fields \cup NamesMeant(names)
              /\ \A n \in NamesMeant(names) :
                    /\ run'.fields[n].class = "Sequence"
                    /\ run'.fields[n].items = <<>>
                    /\ run'.fields[n].id > allocated
                    /\ \A m \in DOMAIN run.fields : run.fields[m].id # run'.fields[n].id
                    /\ \A m \in NamesMeant(names) \ {n} :
                          run'.fields[m].id # run'.fields[n].id
              /\ \A n \in DOMAIN run.fields \ NamesMeant(names) :
                    run'.fields[n] = run.fields[n]
              /\ names = PyNone => run' = run
      ]_vars

\* step_init_sequences(run, "ab") has replaced the field "ab" by a new empty
\* Sequence, added no field "a" or "b", and left the filled field "c" alone.
C16_Witness ==
    /\ lastOp.op = "step_init_sequences"
    /\ lastOp.arg = PyStr(<<"a", "b">>)
    /\ DOMAIN run.fields = { <<"a", "b">>, <<"c">> }
    /\ run.fields[<<"a", "b">>] = Sequence(3)
    /\ run.fields[<<"c">>].items = <<5>>

\* A pattern split at "/" into the patterns of the path's components.
PatternParts(pattern) == Components(pattern)

\* The components of a relative path match the parts of a glob pattern, "**"
\* standing for any number of directories.
RECURSIVE GlobMatch(_, _)
GlobMatch(rel, parts) ==
    IF parts = <<>> THEN rel = <<>>
    ELSE IF Head(parts) = <<"*", "*">>
         THEN GlobMatch(rel, Tail(parts)) \/ (rel # <<>> /\ GlobMatch(Tail(rel), parts))
         ELSE /\ rel # <<>>
              /\ fnmatch(Head(rel), Head(parts))
              /\ GlobMatch(Tail(rel), Tail(parts))

\* The name of a file relative to the directory: components joined by "/".
RelName(rel) == Tail(PathString(rel))

\* The names globs should return: the regular files inside src_dir that
\* match an include pattern (searched recursively) and no exclude pattern.
GlobsExpected(src_dir, include, exclude) ==
    LET src == ResolvePath(cwd, src_dir)
        inc == IF DOMAIN include = {"str"} THEN <<include.str>> ELSE include.list
        exc == IF exclude = PyNone THEN <<>>
               ELSE IF DOMAIN exclude = {"str"} THEN <<exclude.str>> ELSE exclude.list
        rel(x) == SubSeq(x, Len(src) + 1, Len(x))
    IN  { RelName(rel(x)) : x \in
            { y \in DOMAIN files :
                /\ Covers(src, y)
                /\ \E k \in 1..Len(inc) :
                      GlobMatch(rel(y), << <<"*", "*">> >> \o PatternParts(inc[k]))
                /\ \A k \in 1..Len(exc) : ~fnmatch(RelName(rel(y)), exc[k]) } }

\* C17 as claimed. globs(src_dir, include, exclude) raises InvalidInput when
\* src_dir is not an existing directory, and otherwise returns exactly the
\* regular files inside src_dir that match at least one include pattern and
\* no exclude pattern.
C17_Globs ==
    globbed.out.err # "pending" =>
        IF ResolvePath(cwd, globbed.src_dir) \notin dirs
        THEN globbed.out = GlobsRaised("InvalidInput")
        ELSE globbed.out =
                 GlobsReturned(GlobsExpected(globbed.src_dir, globbed.include, globbed.exclude))

====
